---- MODULE Spec2Model ----
(***************************************************************************)
(* Pumper (src/index.js): a monitor that turns a frequency snapshot into   *)
(* a volume, a spike flag and a threshold flag for one global range and    *)
(* for every registered band.                                              *)
(*                                                                         *)
(* JavaScript numbers are modelled as exact fractions <<n, d>> with d > 0  *)
(* in lowest terms, together with the three non-finite values a division   *)
(* by zero produces and the value undefined:                               *)
(*     <<1, 0>> = Infinity   <<-1, 0>> = -Infinity   <<0, 0>> = NaN        *)
(*     <<0, -1>> = undefined                                               *)
(* Rounding of IEEE doubles is not modelled (every value used here is a    *)
(* small fraction), and neither is negative zero (no operand below is      *)
(* negative when it is divided).                                           *)
(***************************************************************************)
EXTENDS Integers, Sequences, FiniteSets, TLC

VARIABLES
    source,        \* this.source: "none" | "element" | "stream"
    promise,       \* the promise start() returned: "none" | "pendingMic" | "pendingMedia" | "resolved" | "rejected"
    sampleRate,    \* AUDIO.sampleRate, owned by the audio device
    maxFreq,       \* this.maxFreq
    freqDataLength,\* this.freqDataLength
    freqData,      \* this.freqData
    startFreq,     \* this.startFreq
    endFreq,       \* this.endFreq
    volume,        \* this.volume
    isSpiking,     \* this.isSpiking
    isOverThreshold,\* this.isOverThreshold
    bands,         \* this.bands
    nextId,        \* identity of the next Band object constructed
    requested,     \* per band: the arguments of the createBand call that made it (threshold, spikeTolerance: as last assigned)
    last,          \* the last call of the API: operation, outcome, returned values, volumes before it, hooks it invoked
    media          \* the one call of getLowLatencyMedia: position, parameters, latency, stream, requests made

vars == <<source, promise, sampleRate, maxFreq, freqDataLength, freqData, startFreq,
          endFreq, volume, isSpiking, isOverThreshold, bands, nextId, requested, last,
          media>>

-----------------------------------------------------------------------------
(* JavaScript number arithmetic *)

NaN == <<0, 0>>
PosInf == <<1, 0>>
NegInf == <<-1, 0>>
Undefined == <<0, -1>>

Abs(n) == IF n < 0 THEN -n ELSE n
Sgn(n) == IF n < 0 THEN -1 ELSE IF n > 0 THEN 1 ELSE 0

RECURSIVE GCD(_, _)
GCD(a, b) == IF b = 0 THEN a ELSE GCD(b, a % b)

\* the fraction n/d; d = 0 gives the result of dividing n by zero
Norm(n, d) ==
    IF d = 0 THEN <<Sgn(n), 0>>
    ELSE LET s == IF d < 0 THEN -1 ELSE 1
             g == GCD(Abs(n), Abs(d))
         IN  <<(s * n) \div g, (s * d) \div g>>

Num(n) == <<n, 1>>
Frac(n, d) == Norm(n, d)

\* ToNumber: undefined converts to NaN
ToNumber(x) == IF x = Undefined THEN NaN ELSE x

Neg(x) == LET a == ToNumber(x) IN <<-a[1], a[2]>>

Add(x, y) ==
    LET a == ToNumber(x)
        b == ToNumber(y)
    IN  IF a = NaN \/ b = NaN THEN NaN
        ELSE IF a[2] = 0 /\ b[2] = 0 THEN (IF a = b THEN a ELSE NaN)
        ELSE IF a[2] = 0 THEN a
        ELSE IF b[2] = 0 THEN b
        ELSE Norm(a[1] * b[2] + b[1] * a[2], a[2] * b[2])

Sub(x, y) == Add(x, Neg(y))

Mul(x, y) ==
    LET a == ToNumber(x)
        b == ToNumber(y)
    IN  IF a = NaN \/ b = NaN THEN NaN
        ELSE IF a[2] = 0 \/ b[2] = 0
             THEN <<Sgn(a[1]) * Sgn(b[1]), 0>>   \* 0 * Infinity = NaN
        ELSE Norm(a[1] * b[1], a[2] * b[2])

Div(x, y) ==
    LET a == ToNumber(x)
        b == ToNumber(y)
    IN  IF a = NaN \/ b = NaN THEN NaN
        ELSE IF a[2] = 0 /\ b[2] = 0 THEN NaN
        ELSE IF a[2] = 0 THEN <<a[1] * (IF b[1] < 0 THEN -1 ELSE 1), 0>>
        ELSE IF b[2] = 0 THEN Num(0)
        ELSE Norm(a[1] * b[2], a[2] * b[1])      \* b[1] = 0: n/0

\* x > y: false when either side is NaN (or undefined)
Gt(x, y) ==
    LET a == ToNumber(x)
        b == ToNumber(y)
    IN  /\ a # NaN
        /\ b # NaN
        /\ a # b
        /\ IF a[2] = 0 THEN a = PosInf
           ELSE IF b[2] = 0 THEN b = NegInf
           ELSE a[1] * b[2] > b[1] * a[2]

Lt(x, y) == Gt(y, x)

\* Math.round: the integer nearest to x, halves rounded up
Round(x) ==
    LET a == ToNumber(x)
    IN  IF a[2] = 0 THEN a
        ELSE Num((2 * a[1] + a[2]) \div (2 * a[2]))

-----------------------------------------------------------------------------
(* Bounds and inputs of the model *)

MaxBands == 2

\* the mapping of frequencies to indices is checked for snapshot lengths
\* 1..MaxLen, sample rates 1..MaxRate and frequencies 0..MaxHz
MaxLen == 8
MaxRate == 8
MaxHz == 5

\* sample rates of the audio device; the Nyquist limits are 100 and 50
SampleRates == {200, 100}

\* 'precision' arguments of start(): fftSize 2^4, 8 frequency bins
Precisions == {4}

\* 'start' and 'end' arguments of start(): the global range
GlobalRanges == {<<25, 75>>}

\* the snapshots analyzer.getByteFrequencyData can deliver, per length
Snapshots(n) ==
    IF n = 8
    THEN { <<0, 0, 10, 200, 200, 10, 0, 0>>,
           <<0, 0, 0, 75, 75, 0, 0, 0>>,
           <<0, 0, 0, 135, 135, 0, 0, 0>>,
           <<0, 0, 0, 140, 145, 0, 0, 0>> }
    ELSE { [i \in 1..n |-> 0], [i \in 1..n |-> 255] }

\* arguments of createBand: start, end, threshold, spikeTolerance, volScale
BandArgs ==
    { <<25, 75, 127, 30, 2>>,
      <<50, 50, 127, 30, 1>>,
      <<150, 150, 127, 30, 1>>,
      <<-25, 50, 127, 30, 1>>,
      <<25, -25, 127, 30, 1>>,
      <<75, 25, 127, 30, 1>> }

\* arguments of createBand for the bands a consumer goes on to configure
TunedBandArgs == { <<25, 75, 127, 30, 2>> }

\* arguments of createBands: start, end, count, volStart, volEnd, bleed
BandsArgs ==
    { <<Num(0), Num(100), Num(2), Num(1), Num(2), Num(0)>>,
      <<Num(50), Num(100), Num(2), Num(1), Num(1), Frac(1, 2)>>,
      <<Num(0), Num(50), Num(1), Num(1), Num(1), Frac(1, 2)>>,
      <<Num(75), Num(25), Num(1), Num(1), Num(1), Num(0)>> }

\* further arguments of createBands, for the geometry of the sub-ranges
MoreBandsArgs ==
    BandsArgs \cup
    { <<Num(25), Num(75), Num(2), Num(1), Num(1), Frac(1, 2)>>,
      <<Num(10), Num(90), Num(2), Num(1), Frac(5, 4), Frac(1, 4)>>,
      <<Num(50), Num(100), Num(1), Num(2), Num(1), Num(1)>> }

\* values a consumer assigns to the public field band.threshold
AssignedThresholds == {100}

\* values a consumer assigns to the public field band.spikeTolerance
AssignedSpikeTolerances == {-10, 10}

-----------------------------------------------------------------------------
(* class Band *)

\* new Band(start, end, threshold, spikeTolerance, volScale): the constructor
\* assigns startFreq, endFreq, volScale, volume and the two flags; it assigns
\* neither this.threshold nor this.spikeTolerance, which stay undefined
Band(id, start, end, threshold, spikeTolerance, volScale) ==
    [ id |-> id,
      startFreq |-> start,
      endFreq |-> end,
      threshold |-> Undefined,
      spikeTolerance |-> Undefined,
      volScale |-> volScale,
      volume |-> Num(0),
      isOverThreshold |-> FALSE,
      isSpiking |-> FALSE ]

\* the methods class Band defines; update() calls band._onSpike and
\* band._onOverThreshold
BandMethods == {"_onSpike", "_onThreshold"}

\* calling band.<name>(): a TypeError when the method does not exist
CallThrows(name) == name \notin BandMethods

-----------------------------------------------------------------------------
(* class Pumper *)

DEFAULT_threshold == 127
DEFAULT_spikeTolerance == 30

globalThreshold == Num(DEFAULT_threshold)
globalSpikeTolerance == Num(DEFAULT_spikeTolerance)

\* the record of a call of the API: its operation and outcome, the identities
\* of the bands it returned, and (for update) the volumes stored before it
\* the hooks of the bands it invoked and the ranges it recomputed, in the
\* order it did (0: the global range, then the identities of the bands)
Call(op, result, ret) ==
    [ op |-> op, result |-> result, ret |-> ret, hooks |-> <<>>, visits |-> <<>>,
      prevVolume |-> IF op = "update" THEN volume ELSE Num(0),
      prevBands |-> IF op = "update"
                    THEN [i \in 1..Len(bands) |-> bands[i].volume]
                    ELSE <<>> ]

\* getLowLatencyMedia before it is called; latencies are in thousandths of a second
NoMedia ==
    [ pc |-> "idle", targetLatency |-> 0, maxLatency |-> 0, increment |-> 0, fallback |-> FALSE,
      latency |-> 0, stream |-> FALSE, requests |-> <<>>, error |-> "none" ]

Init ==
    /\ source = "none"
    /\ promise = "none"
    /\ sampleRate \in SampleRates
    /\ maxFreq = Undefined
    /\ freqDataLength = 0
    /\ freqData = <<>>
    /\ startFreq = Undefined
    /\ endFreq = Undefined
    /\ volume = Num(0)
    /\ isSpiking = FALSE
    /\ isOverThreshold = FALSE
    /\ bands = <<>>
    /\ nextId = 1
    /\ requested = <<>>
    /\ last = [ op |-> "new", result |-> "ok", ret |-> <<>>, hooks |-> <<>>, visits |-> <<>>,
                prevVolume |-> Num(0), prevBands |-> <<>> ]
    /\ media = NoMedia

RECURSIVE Pow2(_)
Pow2(n) == IF n = 0 THEN 1 ELSE 2 * Pow2(n - 1)

\* start(srcValue, start, end, precision), up to its first await or its return
Start(src, range, precision) ==
    /\ promise = "none"
    /\ maxFreq' = Div(Num(sampleRate), Num(2))
    /\ freqDataLength' = Pow2(precision) \div 2
    /\ freqData' = [i \in 1..(Pow2(precision) \div 2) |-> 0]
    /\ startFreq' = Num(range[1])
    /\ endFreq' = Num(range[2])
    /\ IF src = "mic"
       THEN /\ promise' = "pendingMic"
            /\ UNCHANGED source
       ELSE /\ promise' = "pendingMedia"
            /\ source' = "element"
    /\ last' = Call("start", "ok", <<>>)
    /\ UNCHANGED <<media, sampleRate, volume, isSpiking, isOverThreshold, bands, nextId, requested>>

\* getUserMedia resolves: start() creates the stream source and its promise resolves
MicGranted ==
    /\ promise = "pendingMic"
    /\ source' = "stream"
    /\ promise' = "resolved"
    /\ UNCHANGED <<media, last, sampleRate, maxFreq, freqDataLength, freqData, startFreq, endFreq,
                   volume, isSpiking, isOverThreshold, bands, nextId, requested>>

\* getUserMedia rejects: start() rethrows through Pumper._err
MicDenied ==
    /\ promise = "pendingMic"
    /\ promise' = "rejected"
    /\ UNCHANGED <<media, last, source, sampleRate, maxFreq, freqDataLength, freqData, startFreq, endFreq,
                   volume, isSpiking, isOverThreshold, bands, nextId, requested>>

\* the audio element fires 'loadeddata': the promise of start() resolves
LoadedData ==
    /\ promise = "pendingMedia"
    /\ promise' = "resolved"
    /\ UNCHANGED <<media, last, source, sampleRate, maxFreq, freqDataLength, freqData, startFreq, endFreq,
                   volume, isSpiking, isOverThreshold, bands, nextId, requested>>

\* the device changes the sample rate of the audio context
SampleRateChange(rate) ==
    /\ promise # "none"
    /\ rate # sampleRate
    /\ sampleRate' = rate
    /\ UNCHANGED <<media, last, source, promise, maxFreq, freqDataLength, freqData, startFreq, endFreq,
                   volume, isSpiking, isOverThreshold, bands, nextId, requested>>

-----------------------------------------------------------------------------
(* createBand, createBands *)

\* the range checks without the comparison of start with end
RangeCheckNoOrder(start, end, mf) ==
    IF Lt(start, Num(0)) \/ Gt(start, mf) THEN "InvalidStart"
    ELSE IF Lt(end, Num(0)) \/ Gt(end, mf) THEN "InvalidEnd"
    ELSE "ok"

\* the three range checks of createBand and createBands: which Pumper._err
\* throws, if any. A comparison with an undefined maxFreq is false.
RangeCheck(start, end, mf) ==
    IF Lt(start, Num(0)) \/ Gt(start, mf) THEN "InvalidStart"
    ELSE IF Lt(end, Num(0)) \/ Gt(end, mf) THEN "InvalidEnd"
    ELSE IF Gt(start, end) THEN "StartAfterEnd"
    ELSE "ok"

\* createBand with the band put first (unshift) instead of last (push)
CreateBandOnUnshift(reg, a, mf) ==
    LET check == RangeCheck(a[1], a[2], mf)
        band == Band(reg.nextId, a[1], a[2], a[3], a[4], a[5])
        q == [ start |-> a[1], end |-> a[2], threshold |-> a[3],
               spikeTolerance |-> a[4], volScale |-> a[5] ]
    IN  IF check # "ok"
        THEN [ bands |-> reg.bands, nextId |-> reg.nextId, requested |-> reg.requested,
               result |-> check, ret |-> <<>> ]
        ELSE [ bands |-> <<band>> \o reg.bands,
               nextId |-> reg.nextId + 1,
               requested |-> <<q>> \o reg.requested,
               result |-> "ok",
               ret |-> <<band.id>> ]

\* createBand that also resets the volume and flags of the registered bands
CreateBandOnResetting(reg, a, mf) ==
    LET check == RangeCheck(a[1], a[2], mf)
        band == Band(reg.nextId, a[1], a[2], a[3], a[4], a[5])
        reset == [i \in 1..Len(reg.bands) |->
                     [reg.bands[i] EXCEPT !.volume = Num(0), !.isSpiking = FALSE,
                                          !.isOverThreshold = FALSE]]
    IN  IF check # "ok"
        THEN [ bands |-> reg.bands, nextId |-> reg.nextId, requested |-> reg.requested,
               result |-> check, ret |-> <<>> ]
        ELSE [ bands |-> Append(reset, band),
               nextId |-> reg.nextId + 1,
               requested |-> Append(reg.requested,
                                    [ start |-> a[1], end |-> a[2], threshold |-> a[3],
                                      spikeTolerance |-> a[4], volScale |-> a[5] ]),
               result |-> "ok",
               ret |-> <<band.id>> ]

\* createBand on the registry reg = [bands, nextId, requested] with the
\* arguments a = <<start, end, threshold, spikeTolerance, volScale>>:
\* the registry after the call, the outcome and the band returned
CreateBandOn(reg, a, mf) ==
    LET check == RangeCheck(a[1], a[2], mf)
        band == Band(reg.nextId, a[1], a[2], a[3], a[4], a[5])
    IN  IF check # "ok"
        THEN [ bands |-> reg.bands, nextId |-> reg.nextId, requested |-> reg.requested,
               result |-> check, ret |-> <<>> ]
        ELSE [ bands |-> Append(reg.bands, band),
               nextId |-> reg.nextId + 1,
               requested |-> Append(reg.requested,
                                    [ start |-> a[1], end |-> a[2], threshold |-> a[3],
                                      spikeTolerance |-> a[4], volScale |-> a[5] ]),
               result |-> "ok",
               ret |-> <<band.id>> ]

Registry == [bands |-> bands, nextId |-> nextId, requested |-> requested]

ToNums(t) == [i \in 1..Len(t) |-> Num(t[i])]

CreateBand(a) ==
    /\ Len(bands) < MaxBands
    /\ LET r == CreateBandOn(Registry, ToNums(a), maxFreq)
       IN  /\ bands' = r.bands
           /\ nextId' = r.nextId
           /\ requested' = r.requested
           /\ last' = Call("createBand", r.result, r.ret)
    /\ UNCHANGED <<media, source, promise, sampleRate, maxFreq, freqDataLength, freqData,
                   startFreq, endFreq, volume, isSpiking, isOverThreshold>>

\* the sub-range with the volume scales spread so that the last is volEnd
SubBandArgsToVolEnd(a, i) ==
    LET freqRange == Sub(a[2], a[1])
        bleedVal == Mul(Div(freqRange, a[3]), a[6])
    IN  << Sub(Add(a[1], Div(Mul(freqRange, Num(i)), a[3])), bleedVal),
           Add(Add(a[1], Div(Mul(freqRange, Num(i + 1)), a[3])), bleedVal),
           globalThreshold,
           globalSpikeTolerance,
           IF a[3] = Num(1) THEN a[4]
           ELSE Add(a[4], Div(Mul(Sub(a[5], a[4]), Num(i)), Sub(a[3], Num(1)))) >>

\* the sub-range widened by bleed times the whole range
SubBandArgsBleedOfRange(a, i) ==
    LET freqRange == Sub(a[2], a[1])
        bleedVal == Mul(freqRange, a[6])
    IN  << Sub(Add(a[1], Div(Mul(freqRange, Num(i)), a[3])), bleedVal),
           Add(Add(a[1], Div(Mul(freqRange, Num(i + 1)), a[3])), bleedVal),
           globalThreshold,
           globalSpikeTolerance,
           Add(a[4], Div(Mul(Sub(a[5], a[4]), Num(i)), a[3])) >>

\* the sub-range with a start below 0 clamped to 0
SubBandArgsClamped(a, i) ==
    LET freqRange == Sub(a[2], a[1])
        bleedVal == Mul(Div(freqRange, a[3]), a[6])
        from == Sub(Add(a[1], Div(Mul(freqRange, Num(i)), a[3])), bleedVal)
    IN  << IF Lt(from, Num(0)) THEN Num(0) ELSE from,
           Add(Add(a[1], Div(Mul(freqRange, Num(i + 1)), a[3])), bleedVal),
           globalThreshold,
           globalSpikeTolerance,
           Add(a[4], Div(Mul(Sub(a[5], a[4]), Num(i)), a[3])) >>

\* the arguments createBands passes to createBand for sub-range i
SubBandArgs(a, i) ==
    LET start == a[1]
        end == a[2]
        count == a[3]
        volStart == a[4]
        volEnd == a[5]
        bleed == a[6]
        freqRange == Sub(end, start)
        volRange == Sub(volEnd, volStart)
        bleedVal == Mul(Div(freqRange, count), bleed)
    IN  << Sub(Add(start, Div(Mul(freqRange, Num(i)), count)), bleedVal),
           Add(Add(start, Div(Mul(freqRange, Num(i + 1)), count)), bleedVal),
           globalThreshold,
           globalSpikeTolerance,
           Add(volStart, Div(Mul(volRange, Num(i)), count)) >>

\* the loop of createBands from sub-range i on: it stops at the first
\* createBand that throws, with the bands pushed so far left in place
RECURSIVE CreateBandsLoop(_, _, _, _, _)
CreateBandsLoop(reg, a, i, mf, made) ==
    IF i >= a[3][1]
    THEN [ bands |-> reg.bands, nextId |-> reg.nextId, requested |-> reg.requested,
           result |-> "ok", ret |-> made ]
    ELSE LET r == CreateBandOn(reg, SubBandArgs(a, i), mf)
         IN  IF r.result # "ok"
             THEN r
             ELSE CreateBandsLoop([bands |-> r.bands, nextId |-> r.nextId,
                                   requested |-> r.requested],
                                  a, i + 1, mf, made \o r.ret)

CreateBandsOn(reg, a, mf) ==
    LET check == RangeCheck(a[1], a[2], mf)
    IN  IF check # "ok"
        THEN [ bands |-> reg.bands, nextId |-> reg.nextId, requested |-> reg.requested,
               result |-> check, ret |-> <<>> ]
        ELSE CreateBandsLoop(reg, a, 0, mf, <<>>)

CreateBands(a) ==
    /\ Len(bands) + a[3][1] <= MaxBands
    /\ LET r == CreateBandsOn(Registry, a, maxFreq)
       IN  /\ bands' = r.bands
           /\ nextId' = r.nextId
           /\ requested' = r.requested
           /\ last' = Call("createBands", r.result, r.ret)
    /\ UNCHANGED <<media, source, promise, sampleRate, maxFreq, freqDataLength, freqData,
                   startFreq, endFreq, volume, isSpiking, isOverThreshold>>

\* a consumer assigns the public field threshold of a registered band
SetBandThreshold(i, t) ==
    /\ i \in 1..Len(bands)
    /\ bands[i].threshold # Num(t)
    /\ bands' = [bands EXCEPT ![i].threshold = Num(t)]
    /\ requested' = [requested EXCEPT ![i].threshold = Num(t)]
    /\ last' = Call("setThreshold", "ok", <<>>)
    /\ UNCHANGED <<media, source, promise, sampleRate, maxFreq, freqDataLength, freqData,
                   startFreq, endFreq, volume, isSpiking, isOverThreshold, nextId>>

\* a consumer assigns the public field spikeTolerance of a registered band
SetBandSpikeTolerance(i, t) ==
    /\ i \in 1..Len(bands)
    /\ bands[i].spikeTolerance # Num(t)
    /\ bands' = [bands EXCEPT ![i].spikeTolerance = Num(t)]
    /\ requested' = [requested EXCEPT ![i].spikeTolerance = Num(t)]
    /\ last' = Call("setSpikeTolerance", "ok", <<>>)
    /\ UNCHANGED <<media, source, promise, sampleRate, maxFreq, freqDataLength, freqData,
                   startFreq, endFreq, volume, isSpiking, isOverThreshold, nextId>>

-----------------------------------------------------------------------------
(* update *)

\* the multiplication by the length of the snapshot instead of its last index
IndexForByLength(freq, mf, n) == Round(Mul(Div(freq, mf), Num(n)))

\* the division by the sample rate (twice maxFreq) instead of maxFreq
IndexForBySampleRate(freq, mf, n) == Round(Mul(Div(freq, Mul(mf, Num(2))), Num(n - 1)))

\* Math.round((freq / maxFreq) * (length - 1)), a 0-based index
IndexFor(freq, mf, n) == Round(Mul(Div(freq, mf), Num(n - 1)))

\* data[i] of a typed array, 0-based: undefined outside the array
Elem(data, i) == IF i \in 0..(Len(data) - 1) THEN Num(data[i + 1]) ELSE Undefined

\* for (let i = from; i <= to; i++) total += data[i]
RECURSIVE LoopTotal(_, _, _, _)
LoopTotal(data, i, to, total) ==
    IF i > to THEN total
    ELSE LoopTotal(data, i + 1, to, Add(total, Elem(data, i)))

\* the volume with the total divided by the number of samples
RangeVolumeByCount(start, end, volScale, data, mf) ==
    LET rangeStart == IndexFor(start, mf, Len(data))
        rangeEnd == IndexFor(end, mf, Len(data))
        total == LoopTotal(data, rangeStart[1], rangeEnd[1], Num(0))
    IN  Mul(Div(total, Add(Sub(rangeEnd, rangeStart), Num(1))), volScale)

\* the volume of the range (start, end) in the snapshot data
RangeVolume(start, end, volScale, data, mf) ==
    LET rangeStart == IndexFor(start, mf, Len(data))
        rangeEnd == IndexFor(end, mf, Len(data))
        total == LoopTotal(data, rangeStart[1], rangeEnd[1], Num(0))
    IN  Mul(Div(total, Sub(rangeEnd, rangeStart)), volScale)

\* the spike test on the new volume alone
SpikeTestNoPrevious(newVolume, oldVolume, spikeTolerance) ==
    Gt(newVolume, spikeTolerance)

\* the spike test on the size of the change, rising or falling
SpikeTestEitherWay(newVolume, oldVolume, spikeTolerance) ==
    \/ Gt(Sub(newVolume, oldVolume), spikeTolerance)
    \/ Gt(Sub(oldVolume, newVolume), spikeTolerance)

\* newVolume - oldVolume > spikeTolerance
SpikeTest(newVolume, oldVolume, spikeTolerance) ==
    Gt(Sub(newVolume, oldVolume), spikeTolerance)

\* the threshold test turned around
ThresholdTestBelow(vol, threshold) == Lt(vol, threshold)

\* volume > threshold
ThresholdTest(vol, threshold) == Gt(vol, threshold)

\* the body of bands.forEach for one band: the band after it, whether it
\* threw (the call of a method the band does not have), and the hooks that
\* ran, as <<band, method, argument>>
UpdateBand(band, data, mf) ==
    LET bandVolume == RangeVolume(band.startFreq, band.endFreq, band.volScale, data, mf)
        spiking == SpikeTest(bandVolume, band.volume, band.spikeTolerance)
        over == ThresholdTest(bandVolume, band.threshold)
        spikeThrows == spiking /\ CallThrows("_onSpike")
        overThrows == over /\ CallThrows("_onOverThreshold")
        spikeCall == IF spiking /\ ~spikeThrows
                     THEN << <<band.id, "_onSpike", Sub(bandVolume, band.volume)>> >>
                     ELSE <<>>
        overCall == IF over /\ ~overThrows
                    THEN << <<band.id, "_onOverThreshold", Undefined>> >>
                    ELSE <<>>
    IN  IF spikeThrows
        THEN [ band |-> [band EXCEPT !.isSpiking = TRUE], threw |-> TRUE, calls |-> <<>> ]
        ELSE [ band |-> [band EXCEPT !.isSpiking = spiking,
                                     !.volume = bandVolume,
                                     !.isOverThreshold = over],
               threw |-> overThrows,
               calls |-> spikeCall \o overCall ]

\* bands.forEach from band i on: an exception ends the iteration
RECURSIVE UpdateBands(_, _, _, _)
UpdateBands(bs, i, data, mf) ==
    IF i > Len(bs) THEN [ bands |-> bs, threw |-> FALSE, calls |-> <<>>, visits |-> <<>> ]
    ELSE LET r == UpdateBand(bs[i], data, mf)
             bs2 == [bs EXCEPT ![i] = r.band]
         IN  IF r.threw
             THEN [ bands |-> bs2, threw |-> TRUE, calls |-> r.calls, visits |-> <<bs[i].id>> ]
             ELSE [ UpdateBands(bs2, i + 1, data, mf)
                      EXCEPT !.calls = r.calls \o @, !.visits = <<bs[i].id>> \o @ ]

\* a readiness test that takes a requested microphone for a ready source
SourceReadyOrRequested == source \in {"element", "stream"} \/ promise = "pendingMic"

\* this.source instanceof MediaElementAudioSourceNode || ... MediaStreamAudioSourceNode
SourceReady == source \in {"element", "stream"}

\* the limit as a stored field: the one start() or the last update left
StoredMaxFreq == maxFreq

\* this.AUDIO.sampleRate / 2, read at the call
CurrentMaxFreq == Div(Num(sampleRate), Num(2))

Update ==
    IF SourceReady
    THEN \E data \in Snapshots(freqDataLength) :
            LET mf == CurrentMaxFreq
                globalVolume == RangeVolume(startFreq, endFreq, Num(1), data, mf)
            IN  \E r \in {UpdateBands(bands, 1, data, mf)} :
                /\ maxFreq' = mf
                /\ freqData' = data
                /\ isSpiking' = SpikeTest(globalVolume, volume, globalSpikeTolerance)
                /\ volume' = globalVolume
                /\ isOverThreshold' = ThresholdTest(globalVolume, globalThreshold)
                /\ bands' = r.bands
                /\ last' = [ Call("update", IF r.threw THEN "TypeError" ELSE "ok", <<>>)
                               EXCEPT !.hooks = r.calls, !.visits = <<0>> \o r.visits ]
                /\ UNCHANGED <<media, source, promise, sampleRate, freqDataLength,
                               startFreq, endFreq, nextId, requested>>
    ELSE /\ last' = Call("update", "SourceNotReady", <<>>)
         /\ UNCHANGED <<media, source, promise, sampleRate, maxFreq, freqDataLength, freqData,
                        startFreq, endFreq, volume, isSpiking, isOverThreshold,
                        bands, nextId, requested>>

-----------------------------------------------------------------------------

\* a monitor fed by a media element: bands are created, configured and updated
Next ==
    \/ \E range \in GlobalRanges, p \in Precisions : Start("media", range, p)
    \/ \E a \in BandArgs : CreateBand(a)
    \/ \E a \in BandsArgs : CreateBands(a)
    \/ \E i \in 1..MaxBands, t \in AssignedThresholds : SetBandThreshold(i, t)
    \/ Update

Spec == Init /\ [][Next]_vars

\* the ways a source becomes ready (or never does), with bands created and
\* updated in between
NextStart ==
    \/ \E src \in {"mic", "media"}, range \in GlobalRanges, p \in Precisions :
          Start(src, range, p)
    \/ MicGranted
    \/ MicDenied
    \/ LoadedData
    \/ \E a \in BandArgs : CreateBand(a)
    \/ Update

SpecStart == Init /\ [][NextStart]_vars

\* a monitor on which bands are registered, one by one and in series
NextBands ==
    \/ \E range \in GlobalRanges, p \in Precisions : Start("media", range, p)
    \/ \E a \in BandArgs : CreateBand(a)
    \/ \E a \in MoreBandsArgs : CreateBands(a)

SpecBands == Init /\ [][NextBands]_vars

\* a monitor whose audio device changes its sample rate between the calls
NextRate ==
    \/ \E range \in GlobalRanges, p \in Precisions : Start("media", range, p)
    \/ \E rate \in SampleRates : SampleRateChange(rate)
    \/ \E a \in BandArgs : CreateBand(a)
    \/ Update

SpecRate == Init /\ [][NextRate]_vars

\* a monitor whose consumer sets the spike tolerance of its bands, so that
\* the spike flag and the spike hook of the bands come into play
NextTolerance ==
    \/ \E range \in GlobalRanges, p \in Precisions : Start("media", range, p)
    \/ \E a \in TunedBandArgs : CreateBand(a)
    \/ \E i \in 1..MaxBands, t \in AssignedSpikeTolerances : SetBandSpikeTolerance(i, t)
    \/ Update

SpecTolerance == Init /\ [][NextTolerance]_vars

\* a monitor whose consumer sets the threshold of its bands, so that the
\* threshold flag and the threshold hook of the bands come into play
NextThreshold ==
    \/ \E range \in GlobalRanges, p \in Precisions : Start("media", range, p)
    \/ \E a \in TunedBandArgs : CreateBand(a)
    \/ \E a \in BandsArgs : CreateBands(a)
    \/ \E i \in 1..MaxBands, t \in AssignedThresholds : SetBandThreshold(i, t)
    \/ Update

SpecThreshold == Init /\ [][NextThreshold]_vars

\* the frequencies a range is configured with: whole ones and the limit itself
Freqs(mf) == {Num(k) : k \in 0..MaxHz} \cup {mf}

\* the inputs of the mapping: a snapshot of any length and the Nyquist limit
\* of any sample rate
InitIndex ==
    /\ source = "none"
    /\ promise = "none"
    /\ sampleRate \in 1..MaxRate
    /\ maxFreq = Div(Num(sampleRate), Num(2))
    /\ freqDataLength \in 1..MaxLen
    /\ freqData = [i \in 1..freqDataLength |-> 0]
    /\ startFreq = Undefined
    /\ endFreq = Undefined
    /\ volume = Num(0)
    /\ isSpiking = FALSE
    /\ isOverThreshold = FALSE
    /\ bands = <<>>
    /\ nextId = 1
    /\ requested = <<>>
    /\ last = [ op |-> "new", result |-> "ok", ret |-> <<>>, hooks |-> <<>>, visits |-> <<>>,
                prevVolume |-> Num(0), prevBands |-> <<>> ]
    /\ media = NoMedia

\* the two index computations of update for a range (start, end):
\* rangeStart and rangeEnd
MapRange(start, end) ==
    /\ last.op = "new"
    /\ startFreq' = start
    /\ endFreq' = end
    /\ last' = Call("mapRange", "ok", << IndexFor(start, maxFreq, freqDataLength),
                                         IndexFor(end, maxFreq, freqDataLength) >>)
    /\ UNCHANGED <<media, source, promise, sampleRate, maxFreq, freqDataLength, freqData,
                   volume, isSpiking, isOverThreshold, bands, nextId, requested>>

NextIndex == \E start \in Freqs(maxFreq), end \in Freqs(maxFreq) : MapRange(start, end)

SpecIndex == InitIndex /\ [][NextIndex]_vars

-----------------------------------------------------------------------------
(* getLowLatencyMedia: the microphone request of the TypeScript revision *)

\* parameters of the call, in thousandths of a second (the defaults are 3, 40, 10, true)
TargetLatencies == {3, 10, 30}
MaxLatencies == {20, 40}
Increments == {10, 15}

\* what a getUserMedia request can settle to: a stream, an OverconstrainedError
\* on 'latency', an OverconstrainedError on another constraint, any other error
Outcomes == {"stream", "latency", "constraint", "error"}

GetLowLatencyMedia(targetLatency, maxLatency, increment, fallback) ==
    /\ media.pc = "idle"
    /\ media' = [ NoMedia EXCEPT !.pc = "loop", !.targetLatency = targetLatency,
                                 !.maxLatency = maxLatency, !.increment = increment,
                                 !.fallback = fallback, !.latency = targetLatency ]
    /\ UNCHANGED <<source, promise, sampleRate, maxFreq, freqDataLength, freqData, startFreq,
                   endFreq, volume, isSpiking, isOverThreshold, bands, nextId, requested, last>>

\* while (!stream && latency <= maxLatency)
LoopGuardOneMore(m) == ~m.stream /\ m.latency <= m.maxLatency + m.increment
LoopGuard(m) == ~m.stream /\ m.latency <= m.maxLatency

\* one iteration of the loop: the request with exact: latency, and what it settles to
LatencyRequest(outcome) ==
    /\ media.pc = "loop"
    /\ LoopGuard(media)
    /\ LET request == [ kind |-> "latency", exact |-> media.latency, outcome |-> outcome ]
           asked   == [media EXCEPT !.requests = Append(@, request)]
       IN  media' = CASE outcome = "stream"  -> [asked EXCEPT !.stream = TRUE]
                      [] outcome = "latency" -> [asked EXCEPT !.latency = @ + media.increment]
                      [] OTHER               -> [asked EXCEPT !.pc = "thrown", !.error = outcome]
    /\ UNCHANGED <<source, promise, sampleRate, maxFreq, freqDataLength, freqData, startFreq,
                   endFreq, volume, isSpiking, isOverThreshold, bands, nextId, requested, last>>

\* the loop is left: return the stream, raise, or go on to the unconstrained request
AfterLoop ==
    /\ media.pc = "loop"
    /\ ~LoopGuard(media)
    /\ media' = IF media.stream THEN [media EXCEPT !.pc = "returned"]
                ELSE IF ~media.fallback
                     THEN [media EXCEPT !.pc = "thrown", !.error = "lowLatencyFailed"]
                     ELSE [media EXCEPT !.pc = "fallback"]
    /\ UNCHANGED <<source, promise, sampleRate, maxFreq, freqDataLength, freqData, startFreq,
                   endFreq, volume, isSpiking, isOverThreshold, bands, nextId, requested, last>>

\* the request without a latency constraint; every failure is rethrown as one Error
FallbackRequest(outcome) ==
    /\ media.pc = "fallback"
    /\ LET request == [ kind |-> "plain", exact |-> 0, outcome |-> outcome ]
           asked   == [media EXCEPT !.requests = Append(@, request)]
       IN  media' = IF outcome = "stream"
                    THEN [asked EXCEPT !.stream = TRUE, !.pc = "returned"]
                    ELSE [asked EXCEPT !.pc = "thrown", !.error = "failedAtAll"]
    /\ UNCHANGED <<source, promise, sampleRate, maxFreq, freqDataLength, freqData, startFreq,
                   endFreq, volume, isSpiking, isOverThreshold, bands, nextId, requested, last>>

NextMedia ==
    \/ \E targetLatency \in TargetLatencies, maxLatency \in MaxLatencies,
          increment \in Increments, fallback \in BOOLEAN :
            GetLowLatencyMedia(targetLatency, maxLatency, increment, fallback)
    \/ \E outcome \in Outcomes : LatencyRequest(outcome)
    \/ AfterLoop
    \/ \E outcome \in Outcomes : FallbackRequest(outcome)

\* every getUserMedia request settles, so a step that is possible is taken
SpecMedia == Init /\ [][NextMedia]_vars /\ WF_vars(NextMedia)

-----------------------------------------------------------------------------
(* updateFromData: the one routine of the TypeScript revision *)

\* a relative index of TypedArray.prototype.slice: NaN is 0, a negative index
\* counts from the end, and the result is clamped to 0..len
RelativeIndex(x, len) ==
    IF x = NaN \/ x = NegInf THEN 0
    ELSE IF x = PosInf THEN len
    ELSE IF x[1] < 0 THEN (IF len + x[1] < 0 THEN 0 ELSE len + x[1])
    ELSE IF x[1] > len THEN len ELSE x[1]

\* data.slice(from, to).reduce((a, b) => a + b, 0), from and to already relative
RECURSIVE SliceReduce(_, _, _, _)
SliceReduce(data, from, to, total) ==
    IF from >= to THEN total
    ELSE SliceReduce(data, from + 1, to, total + data[from + 1])

\* the routine with the volume stored before the spike is computed
UpdateFromDataVolumeFirst(self, data, mf) ==
    LET rangeStart == IndexFor(self.startFreq, mf, Len(data))
        rangeEnd == IndexFor(self.endFreq, mf, Len(data))
        total == SliceReduce(data, RelativeIndex(rangeStart, Len(data)),
                             RelativeIndex(Add(rangeEnd, Num(1)), Len(data)), 0)
        vol == Mul(Div(Num(total), Sub(rangeEnd, rangeStart)), self.volScale)
        spike == Sub(vol, vol)
        spiking == Gt(spike, self.spikeTolerance)
        over == Gt(vol, self.threshold)
    IN  [ band |-> [self EXCEPT !.volume = vol, !.isSpiking = spiking, !.isOverThreshold = over],
          calls |-> (IF spiking THEN << <<self.id, "_onSpike", spike>> >> ELSE <<>>)
                    \o (IF over THEN << <<self.id, "_onThreshold", Undefined>> >> ELSE <<>>) ]

\* updateFromData(self, freqData, maxFreq) for a band: the band after it and
\* the hooks that ran
UpdateFromData(self, data, mf) ==
    LET rangeStart == IndexFor(self.startFreq, mf, Len(data))
        rangeEnd == IndexFor(self.endFreq, mf, Len(data))
        total == SliceReduce(data, RelativeIndex(rangeStart, Len(data)),
                             RelativeIndex(Add(rangeEnd, Num(1)), Len(data)), 0)
        vol == Mul(Div(Num(total), Sub(rangeEnd, rangeStart)), self.volScale)
        spike == Sub(vol, self.volume)
        spiking == Gt(spike, self.spikeTolerance)
        over == Gt(vol, self.threshold)
    IN  [ band |-> [self EXCEPT !.volume = vol, !.isSpiking = spiking, !.isOverThreshold = over],
          calls |-> (IF spiking THEN << <<self.id, "_onSpike", spike>> >> ELSE <<>>)
                    \o (IF over THEN << <<self.id, "_onThreshold", Undefined>> >> ELSE <<>>) ]

\* the bands the routine is applied to: range, volScale, threshold,
\* spikeTolerance (undefined when index.js built the band) and previous volume
HelperBands ==
    { [ Band(1, Num(range[1]), Num(range[2]), Undefined, Undefined, Num(scale))
          EXCEPT !.threshold = t, !.spikeTolerance = s, !.volume = Num(v) ] :
        range \in {<<25, 75>>, <<50, 50>>, <<0, 100>>},
        scale \in {1, 2},
        t \in {Undefined, Num(100)},
        s \in {Undefined, Num(10), Num(-10)},
        v \in {0, 150} }

InitHelper ==
    /\ source = "element"
    /\ promise = "resolved"
    /\ sampleRate \in SampleRates
    /\ maxFreq = Div(Num(sampleRate), Num(2))
    /\ freqDataLength \in {Pow2(p) \div 2 : p \in Precisions}
    /\ freqData = [i \in 1..freqDataLength |-> 0]
    /\ startFreq = Undefined
    /\ endFreq = Undefined
    /\ volume = Num(0)
    /\ isSpiking = FALSE
    /\ isOverThreshold = FALSE
    /\ bands \in {<<b>> : b \in HelperBands}
    /\ nextId = 2
    /\ requested = <<>>
    /\ last = [ op |-> "new", result |-> "ok", ret |-> <<>>, hooks |-> <<>>, visits |-> <<>>,
                prevVolume |-> Num(0), prevBands |-> <<>> ]
    /\ media = NoMedia

\* this.bands.forEach(band => updateFromData(band, this.freqData, this.maxFreq))
\* on a new snapshot
UpdateFromDataCall(data) ==
    LET r == [i \in 1..Len(bands) |-> UpdateFromData(bands[i], data, maxFreq)]
    IN  /\ freqData' = data
        /\ bands' = [i \in 1..Len(bands) |-> r[i].band]
        /\ last' = [ Call("updateFromData", "ok", <<>>) EXCEPT !.hooks = r[1].calls ]
        /\ UNCHANGED <<media, source, promise, sampleRate, maxFreq, freqDataLength,
                       startFreq, endFreq, volume, isSpiking, isOverThreshold, nextId, requested>>

NextHelper == \E data \in Snapshots(freqDataLength) : UpdateFromDataCall(data)

SpecHelper == InitHelper /\ [][NextHelper]_vars

-----------------------------------------------------------------------------
(* Properties *)

\* the last call was an update that returned true
UpdatedOk == last.op = "update" /\ last.result = "ok"

\* the last call was a createBand that returned a band
CreatedOk == last.op = "createBand" /\ last.result = "ok"

\* C1: after every successful update, the global range and every band have
\* isSpiking true exactly when the volume of this update minus the volume of
\* the previous update exceeds the spikeTolerance configured for it.
C1_SpikeIffDeltaOverTolerance ==
    UpdatedOk =>
        /\ isSpiking <=> Gt(Sub(volume, last.prevVolume), globalSpikeTolerance)
        /\ \A i \in 1..Len(bands) :
              bands[i].isSpiking <=>
                  Gt(Sub(bands[i].volume, last.prevBands[i]), requested[i].spikeTolerance)

\* C2: after every successful update, the global range and every band have
\* isOverThreshold true exactly when the volume of this update is strictly
\* greater than the threshold configured for it.
C2_OverThresholdIffVolumeAbove ==
    UpdatedOk =>
        /\ isOverThreshold <=> Gt(volume, globalThreshold)
        /\ \A i \in 1..Len(bands) :
              bands[i].isOverThreshold <=> Gt(bands[i].volume, requested[i].threshold)

\* C3: the band a successful createBand returns is the one it registered and
\* carries the five arguments as startFreq, endFreq, threshold, spikeTolerance
\* and volScale, with volume 0 and both flags false.
C3_BandCarriesArguments ==
    CreatedOk =>
        LET b == bands[Len(bands)]
            q == requested[Len(bands)]
        IN  /\ last.ret = <<b.id>>
            /\ b.startFreq = q.start
            /\ b.endFreq = q.end
            /\ b.threshold = q.threshold
            /\ b.spikeTolerance = q.spikeTolerance
            /\ b.volScale = q.volScale
            /\ b.volume = Num(0)
            /\ ~b.isOverThreshold
            /\ ~b.isSpiking

\* start < 0, start > nyquist, end < 0, end > nyquist or start > end, for
\* integer frequencies and the Nyquist limit mf the monitor holds (none
\* before start() has created the audio context)
InvalidRange(start, end, mf) ==
    \/ start < 0
    \/ end < 0
    \/ start > end
    \/ mf # Undefined /\ start * mf[2] > mf[1]
    \/ mf # Undefined /\ end * mf[2] > mf[1]

\* C4: a createBand whose start or end is negative or above the Nyquist limit,
\* or whose start is above its end, raises and leaves bands as it was.
C4_InvalidRangeRejected ==
    [][ \A a \in BandArgs :
            (CreateBand(a) /\ InvalidRange(a[1], a[2], maxFreq)) =>
                (last'.result # "ok" /\ last'.ret = <<>> /\ bands' = bands) ]_vars

\* a createBand was just rejected by a monitor that knows its Nyquist limit
\* and already holds a band
C4_Witness ==
    /\ last.op = "createBand"
    /\ last.result \in {"InvalidStart", "InvalidEnd", "StartAfterEnd"}
    /\ maxFreq # Undefined
    /\ Len(bands) > 0

\* what never changes of a band: its identity and its frequency range and scale
Identity(b) == <<b.id, b.startFreq, b.endFreq, b.volScale>>

\* C5: bands is append-only and keeps creation order: every step keeps each
\* registered band at its position, and a successful createBand adds exactly
\* one band, at the end, and returns it.
C5_BandsAppendOnly ==
    [][ /\ Len(bands') >= Len(bands)
        /\ \A i \in 1..Len(bands) : Identity(bands'[i]) = Identity(bands[i])
        /\ \A a \in BandArgs :
              (CreateBand(a) /\ last'.result = "ok") =>
                  /\ Len(bands') = Len(bands) + 1
                  /\ last'.ret = <<bands'[Len(bands')].id>>
                  /\ \A i \in 1..Len(bands) : bands'[Len(bands')].id # bands[i].id ]_vars

\* two bands, registered by two calls, stand in creation order after an update
C5_Witness ==
    /\ UpdatedOk
    /\ Len(bands) = 2
    /\ bands[1].id < bands[2].id
    /\ bands[1].volume # Num(0)

\* C6: createBands is all-or-nothing: a createBands that raises leaves bands
\* exactly as it was before the call.
C6_CreateBandsAllOrNothing ==
    [][ \A a \in BandsArgs :
            (CreateBands(a) /\ last'.result # "ok") => bands' = bands ]_vars

\* C7: update never partially updates: an update that raises leaves the
\* volume and the flags of the monitor and of every band unchanged.
C7_UpdateNeverPartial ==
    [][ (Update /\ last'.result # "ok") =>
            UNCHANGED <<volume, isSpiking, isOverThreshold, bands>> ]_vars

\* C8: an update while no source is installed raises and changes neither the
\* monitor's volume and flags nor any band nor the bands collection.
C8_UpdateWithoutSourceRaises ==
    [][ (Update /\ source = "none") =>
            /\ last'.result = "SourceNotReady"
            /\ UNCHANGED <<volume, isSpiking, isOverThreshold, bands, maxFreq, freqData>> ]_vars

\* an update was refused while the microphone was still being requested and
\* a band was registered
C8_Witness ==
    /\ last.op = "update"
    /\ last.result = "SourceNotReady"
    /\ promise = "pendingMic"
    /\ Len(bands) > 0

\* the sum of the samples data[lo..hi] (0-based, inclusive): NaN when an
\* index lies outside the snapshot
RECURSIVE SumInts(_)
SumInts(seq) == IF seq = <<>> THEN 0 ELSE Head(seq) + SumInts(Tail(seq))

SumSamples(data, lo, hi) ==
    IF lo > hi THEN Num(0)
    ELSE IF lo < 0 \/ hi > Len(data) - 1 THEN NaN
    ELSE Num(SumInts(SubSeq(data, lo + 1, hi + 1)))

\* (sum of data[rangeStart..rangeEnd]) / (rangeEnd - rangeStart) * volScale
SpanAverage(start, end, volScale, data, mf) ==
    LET lo == IndexFor(start, mf, Len(data))[1]
        hi == IndexFor(end, mf, Len(data))[1]
    IN  Mul(Div(SumSamples(data, lo, hi), Num(hi - lo)), volScale)

\* C9: the volume a successful update stores, for the global range and every
\* band, is the sum of the samples at indices rangeStart..rangeEnd divided by
\* the span rangeEnd - rangeStart, times volScale.
C9_VolumeIsSumOverSpan ==
    UpdatedOk =>
        /\ volume = SpanAverage(startFreq, endFreq, Num(1), freqData, maxFreq)
        /\ \A i \in 1..Len(bands) :
              bands[i].volume = SpanAverage(bands[i].startFreq, bands[i].endFreq,
                                            bands[i].volScale, freqData, maxFreq)

\* the scenario: range (25, 75) of [0,0,10,200,200,10,0,0] at nyquist 100 has
\* volume 420 / 3 = 140, over the threshold 127; a band of the same range
\* with volScale 2 has volume 280
C9_Witness ==
    /\ UpdatedOk
    /\ freqData = <<0, 0, 10, 200, 200, 10, 0, 0>>
    /\ maxFreq = Num(100)
    /\ startFreq = Num(25) /\ endFreq = Num(75)
    /\ volume = Num(140)
    /\ isOverThreshold
    /\ \E i \in 1..Len(bands) :
          /\ bands[i].startFreq = Num(25) /\ bands[i].endFreq = Num(75)
          /\ bands[i].volScale = Num(2)
          /\ bands[i].volume = Num(280)

\* C10: a range that maps to a single bin gets the value of that sample times
\* volScale as its volume, never the result of a division by zero.
C10_SingleBinVolumeIsSample ==
    UpdatedOk =>
        \A i \in 1..Len(bands) :
            LET lo == IndexFor(bands[i].startFreq, maxFreq, Len(freqData))[1]
                hi == IndexFor(bands[i].endFreq, maxFreq, Len(freqData))[1]
            IN  (lo = hi /\ lo \in 0..(Len(freqData) - 1)) =>
                    bands[i].volume = Mul(Num(freqData[lo + 1]), bands[i].volScale)

\* the last step mapped a range to indices
Mapped == last.op = "mapRange"

\* C11: the mapping sends frequency 0 to index 0 and the Nyquist frequency to
\* index N - 1, for every snapshot length N >= 1 and every Nyquist limit > 0.
C11_MapsEndsToEnds ==
    Mapped =>
        /\ startFreq = Num(0) => last.ret[1] = Num(0)
        /\ endFreq = maxFreq => last.ret[2] = Num(freqDataLength - 1)

\* the range (0, nyquist) of a snapshot of the largest length, at a Nyquist
\* limit that is not a whole number, was mapped to its first and last index
C11_Witness ==
    /\ Mapped
    /\ freqDataLength = MaxLen
    /\ maxFreq = Frac(3, 2)
    /\ startFreq = Num(0) /\ endFreq = maxFreq
    /\ last.ret = <<Num(0), Num(MaxLen - 1)>>

\* 0 <= start <= end <= nyquist
ValidRange(start, end, mf) ==
    /\ ~Lt(start, Num(0))
    /\ ~Gt(start, end)
    /\ ~Gt(end, mf)

\* C12: for a range with 0 <= start <= end <= nyquist the indices satisfy
\* 0 <= rangeStart <= rangeEnd <= N - 1, so that every sample read from
\* rangeStart to rangeEnd is inside the snapshot.
C12_IndicesInsideSnapshot ==
    (Mapped /\ ValidRange(startFreq, endFreq, maxFreq)) =>
        LET lo == last.ret[1]
            hi == last.ret[2]
        IN  /\ lo[2] = 1 /\ hi[2] = 1
            /\ 0 <= lo[1]
            /\ lo[1] <= hi[1]
            /\ hi[1] <= freqDataLength - 1
            /\ \A i \in lo[1]..hi[1] : Elem(freqData, i) # Undefined

\* a valid range that ends at the Nyquist limit was mapped to a span of
\* several samples ending at the last one
C12_Witness ==
    /\ Mapped
    /\ ValidRange(startFreq, endFreq, maxFreq)
    /\ endFreq = maxFreq
    /\ freqDataLength = MaxLen
    /\ last.ret[2] = Num(MaxLen - 1)
    /\ last.ret[1][1] \in 1..(MaxLen - 2)

\* the last call was an update that found a source, whether it returned
\* or threw on the way
UpdateRan == last.op = "update" /\ last.result # "SourceNotReady"

\* C13: at every update every registered band has startFreq <= endFreq and
\* both bounds inside [0, nyquist], for the Nyquist limit in force at that
\* update, also when the sample rate has decreased since the band was made.
C13_BandsInsideNyquist ==
    UpdateRan =>
        \A i \in 1..Len(bands) :
            ValidRange(bands[i].startFreq, bands[i].endFreq, maxFreq)

\* the bands a createBands call has appended
Created == SubSeq(bands', Len(bands) + 1, Len(bands'))

\* C14: after a successful createBands(start, end, count, volStart, volEnd,
\* bleed) the first created band has volScale volStart and the last created
\* band has volScale volEnd.
C14_FirstAndLastVolScale ==
    [][ \A a \in MoreBandsArgs :
            (CreateBands(a) /\ last'.result = "ok") =>
                /\ Created # <<>>
                /\ Created[1].volScale = a[4]
                /\ Created[Len(Created)].volScale = a[5] ]_vars

SubWidth(a) == Div(Sub(a[2], a[1]), a[3])

\* C16: a successful createBands(start, end, count, ..., bleed) returns
\* exactly count bands, in order, and appends exactly those; band i covers
\* [start + i*w - bleed*w, start + (i+1)*w + bleed*w]; with bleed = 0 the
\* bands are contiguous, each of width w, from start to end.
C16_SubRangeGeometry ==
    [][ \A a \in MoreBandsArgs :
            (CreateBands(a) /\ last'.result = "ok") =>
                LET count == a[3][1]
                    w == SubWidth(a)
                    bleedW == Mul(a[6], w)
                IN  /\ Len(last'.ret) = count
                    /\ bands' = bands \o Created
                    /\ last'.ret = [i \in 1..count |-> Created[i].id]
                    /\ \A i \in 0..(count - 1) :
                          /\ Created[i + 1].startFreq =
                                 Sub(Add(a[1], Mul(Num(i), w)), bleedW)
                          /\ Created[i + 1].endFreq =
                                 Add(Add(a[1], Mul(Num(i + 1), w)), bleedW)
                    /\ a[6] = Num(0) =>
                          /\ Created[1].startFreq = a[1]
                          /\ Created[count].endFreq = a[2]
                          /\ \A i \in 1..count :
                                Sub(Created[i].endFreq, Created[i].startFreq) = w
                          /\ \A i \in 1..(count - 1) :
                                Created[i].endFreq = Created[i + 1].startFreq ]_vars

\* createBands(25, 75, 2, 1, 1, 0.5) at nyquist 100 has made the bands
\* (12.5, 62.5) and (37.5, 87.5)
C16_Witness ==
    /\ last.op = "createBands"
    /\ last.result = "ok"
    /\ Len(bands) >= 2
    /\ last.ret = <<bands[Len(bands) - 1].id, bands[Len(bands)].id>>
    /\ bands[Len(bands) - 1].startFreq = Frac(25, 2)
    /\ bands[Len(bands) - 1].endFreq = Frac(125, 2)
    /\ bands[Len(bands)].startFreq = Frac(75, 2)
    /\ bands[Len(bands)].endFreq = Frac(175, 2)
    /\ maxFreq = Num(100)

\* bleed pushes the first sub-range below 0 or the last one above the
\* Nyquist limit mf the monitor holds
PushedOutside(a, mf) ==
    LET bleedW == Mul(a[6], SubWidth(a))
    IN  \/ Lt(Sub(a[1], bleedW), Num(0))
        \/ mf # Undefined /\ Gt(Add(a[2], bleedW), mf)

\* C17: createBands never clamps a widened sub-range: when bleed pushes a
\* boundary below 0 or above the Nyquist limit the call raises the
\* invalid-range error of createBand and no band is created narrowed.
C17_NoClamping ==
    [][ \A a \in MoreBandsArgs :
            (CreateBands(a) /\ PushedOutside(a, maxFreq)) =>
                /\ last'.result \in {"InvalidStart", "InvalidEnd", "StartAfterEnd"}
                /\ last'.ret = <<>>
                /\ \A i \in 1..Len(Created) :
                      /\ Created[i].startFreq =
                             Sub(Add(a[1], Mul(Num(i - 1), SubWidth(a))), Mul(a[6], SubWidth(a)))
                      /\ Created[i].endFreq =
                             Add(Add(a[1], Mul(Num(i), SubWidth(a))), Mul(a[6], SubWidth(a))) ]_vars

\* createBands(0, 50, 1, 1, 1, 0.5), whose only sub-range starts at -25, was
\* rejected by a started monitor and no band was made
C17_Witness ==
    /\ last.op = "createBands"
    /\ last.result = "InvalidStart"
    /\ maxFreq # Undefined
    /\ bands = <<>>

\* C18: of two consecutive successful updates with the same snapshot and
\* the same sample rate, the second leaves isSpiking false for the global
\* range and for every band whose spikeTolerance is above 0, and leaves every
\* volume and every isOverThreshold as the first left them.
C18_SecondUpdateIdempotent ==
    [][ ( /\ UpdatedOk
          /\ Update
          /\ last'.result = "ok"
          /\ freqData' = freqData
          /\ maxFreq' = maxFreq ) =>
            /\ ~isSpiking'
            /\ volume' = volume
            /\ isOverThreshold' = isOverThreshold
            /\ \A i \in 1..Len(bands) :
                  /\ Gt(requested[i].spikeTolerance, Num(0)) => ~bands'[i].isSpiking
                  /\ bands'[i].volume = bands[i].volume
                  /\ bands'[i].isOverThreshold = bands[i].isOverThreshold ]_vars

\* the snapshot [0,0,10,200,200,10,0,0] was updated from twice in a row: the
\* global volume stays 140, over the threshold, and no longer spikes; the
\* volume of the band, whose spikeTolerance was set to 10, stays 280
C18_Witness ==
    /\ UpdatedOk
    /\ freqData = <<0, 0, 10, 200, 200, 10, 0, 0>>
    /\ last.prevVolume = Num(140)
    /\ volume = Num(140)
    /\ isOverThreshold
    /\ ~isSpiking
    /\ Len(bands) > 0
    /\ bands[1].spikeTolerance = Num(10)
    /\ last.prevBands[1] = Num(280)
    /\ bands[1].volume = Num(280)
    /\ ~bands[1].isSpiking

\* x <= y for two numbers (false when either is NaN)
Le(x, y) == ToNumber(x) # NaN /\ ToNumber(y) # NaN /\ ~Gt(x, y)

\* C19: a falling or flat volume never sets the spike flag: after an update
\* whose new volume is at most the volume stored before it, isSpiking is
\* false, for the global range and for every band, whatever spikeTolerance
\* is configured.
C19_FallingNeverSpikes ==
    UpdatedOk =>
        /\ Le(volume, last.prevVolume) => ~isSpiking
        /\ \A i \in 1..Len(bands) :
              Le(bands[i].volume, last.prevBands[i]) => ~bands[i].isSpiking

\* C19 as amended: the same for the global range and for every band whose
\* configured spikeTolerance is not negative.
C19_FallingNeverSpikesNonNegative ==
    UpdatedOk =>
        /\ ~Lt(globalSpikeTolerance, Num(0)) =>
              (Le(volume, last.prevVolume) => ~isSpiking)
        /\ \A i \in 1..Len(bands) :
              ~Lt(requested[i].spikeTolerance, Num(0)) =>
                  (Le(bands[i].volume, last.prevBands[i]) => ~bands[i].isSpiking)

\* the volume of a band whose spikeTolerance was set to 10 fell from 280 to
\* 100, and the global volume from 140 to 50, without a spike
C19_Witness ==
    /\ UpdatedOk
    /\ last.prevVolume = Num(140) /\ volume = Num(50) /\ ~isSpiking
    /\ Len(bands) > 0
    /\ bands[1].spikeTolerance = Num(10)
    /\ last.prevBands[1] = Num(280)
    /\ bands[1].volume = Num(100)
    /\ ~bands[1].isSpiking

\* the calls of the hook 'name' of band 'id' the last update made
HookCalls(id, name) ==
    { k \in 1..Len(last.hooks) : last.hooks[k][1] = id /\ last.hooks[k][2] = name }

\* C20: in each update and for each band, the spike hook runs exactly once,
\* with the volume delta, when the band's spike condition evaluates true, and
\* the threshold hook runs exactly once when its over-threshold condition
\* evaluates true; neither runs when its condition is false, and running a
\* hook never aborts the update.
C20_HooksOncePerCondition ==
    UpdateRan =>
        /\ last.result = "ok"
        /\ \A i \in 1..Len(bands) :
              /\ Cardinality(HookCalls(bands[i].id, "_onSpike")) =
                     (IF bands[i].isSpiking THEN 1 ELSE 0)
              /\ \A k \in HookCalls(bands[i].id, "_onSpike") :
                     last.hooks[k][3] = Sub(bands[i].volume, last.prevBands[i])
              /\ Cardinality(HookCalls(bands[i].id, "_onThreshold")) =
                     (IF bands[i].isOverThreshold THEN 1 ELSE 0)

\* a step that is a call of update, of createBand or of createBands, where
\* every step is a call of the API and records itself in 'last'
UpdateStep == last'.op = "update"
CreateStep == last'.op \in {"createBand", "createBands"}

\* the thresholds the second run of an update is made with
ComparedThresholds == {Num(100), Num(127), Num(200)}

\* the update of this step recomputed the band with identity id
Visited(id) == \E k \in 1..Len(last'.visits) : last'.visits[k] = id

\* C21: for the same snapshot, sample rate, range, volScale and previous
\* volume, the update of a band run with a larger threshold never leaves
\* isOverThreshold true where the run with the smaller threshold leaves it
\* false.
C21_ThresholdMonotonic ==
    [][ (UpdateStep /\ SourceReady) =>
            \A i \in 1..Len(bands) : \A t \in ComparedThresholds :
                (Visited(bands[i].id) /\ Gt(t, bands[i].threshold)) =>
                    LET larger == UpdateBand([bands[i] EXCEPT !.threshold = t],
                                             freqData', CurrentMaxFreq).band
                    IN  larger.isOverThreshold => bands'[i].isOverThreshold ]_vars

\* a band of threshold 100 was found over it at volume 180, where the
\* thresholds 127 and 200 give true and false
C21_Witness ==
    /\ last.op = "update"
    /\ Len(bands) > 0
    /\ bands[1].threshold = Num(100)
    /\ bands[1].volume = Num(180)
    /\ bands[1].isOverThreshold

\* C22: an update recomputes the global range first and then every band
\* exactly once, in registration order, all from the same snapshot, skips no
\* band, and returns true.
C22_GlobalThenBandsInOrder ==
    UpdateRan =>
        /\ last.result = "ok"
        /\ last.visits = <<0>> \o [i \in 1..Len(bands) |-> bands[i].id]
        /\ volume = RangeVolume(startFreq, endFreq, Num(1), freqData, maxFreq)
        /\ \A i \in 1..Len(bands) :
              bands[i].volume = RangeVolume(bands[i].startFreq, bands[i].endFreq,
                                            bands[i].volScale, freqData, maxFreq)

\* C23: every update derives the Nyquist limit from the sample rate current
\* at the call and maps the global range and every band with that value, so
\* that a change of the sample rate shows in the indices of the next update.
C23_UpdateUsesCurrentRate ==
    [][ (Update /\ SourceReady) =>
            LET nyquist == Div(Num(sampleRate), Num(2))
            IN  /\ maxFreq' = nyquist
                /\ volume' = SpanAverage(startFreq, endFreq, Num(1), freqData', nyquist)
                /\ \A i \in 1..Len(bands) :
                      Visited(bands[i].id) =>
                          bands'[i].volume =
                              SpanAverage(bands[i].startFreq, bands[i].endFreq,
                                          bands[i].volScale, freqData', nyquist) ]_vars

\* the sample rate rose from 100 to 200 between two updates: the global range
\* (25, 75), outside the snapshot at nyquist 50 (volume NaN), is mapped to
\* bins 2..5 at nyquist 100 (volume 140), and so is a band
C23_Witness ==
    /\ UpdatedOk
    /\ sampleRate = 200
    /\ maxFreq = Num(100)
    /\ last.prevVolume = NaN
    /\ volume = Num(140)
    /\ Len(bands) > 0
    /\ last.prevBands[1] = NaN
    /\ bands[1].volume = Num(280)

\* what a band is configured with
Config(b) == <<b.startFreq, b.endFreq, b.threshold, b.spikeTolerance, b.volScale>>

\* what update computes of a band
Measured(b) == <<b.volume, b.isSpiking, b.isOverThreshold>>

\* C24: update changes no band's startFreq, endFreq, threshold, spikeTolerance
\* or volScale, nor the global range, nor the length of bands; createBand
\* and createBands change neither the volume or flags of the monitor nor
\* those of a band already registered.
C24_FrameConditions ==
    [][ /\ UpdateStep =>
              /\ Len(bands') = Len(bands)
              /\ \A i \in 1..Len(bands) : Config(bands'[i]) = Config(bands[i])
              /\ UNCHANGED <<startFreq, endFreq>>
        /\ CreateStep =>
              /\ UNCHANGED <<volume, isSpiking, isOverThreshold>>
              /\ \A i \in 1..Len(bands) : Measured(bands'[i]) = Measured(bands[i]) ]_vars

\* a second band was registered after an update: the global volume 140 and
\* its flag and the first band's volume 280 stand as the update left them
C24_Witness ==
    /\ CreatedOk
    /\ Len(bands) = 2
    /\ volume = Num(140)
    /\ isOverThreshold
    /\ bands[1].volume = Num(280)
    /\ bands[2].volume = Num(0)

\* C25: the monitor and every band start with volume 0 and both flags false,
\* and the first update after creation sets isSpiking exactly when the first
\* computed volume exceeds the configured spikeTolerance: a band created
\* between two updates is compared against 0.
C25_SpikeBaselineZero ==
    [][ (UpdateStep /\ last'.result = "ok") =>
            /\ last.op = "start" =>
                  /\ volume = Num(0) /\ ~isSpiking /\ ~isOverThreshold
                  /\ isSpiking' <=> Gt(volume', globalSpikeTolerance)
            /\ CreatedOk =>
                  LET n == Len(bands)
                  IN  /\ bands[n].volume = Num(0)
                      /\ ~bands[n].isSpiking /\ ~bands[n].isOverThreshold
                      /\ bands'[n].isSpiking <=>
                             Gt(bands'[n].volume, requested[n].spikeTolerance) ]_vars

\* C26: what an update leaves of a band (volume, isSpiking, isOverThreshold)
\* depends only on the snapshot, the sample rate, the band's own
\* configuration and its own previous volume: it is what the update of that
\* band alone gives, whichever other bands are registered and whatever the
\* global range is.
C26_BandIndependence ==
    [][ (UpdateStep /\ SourceReady) =>
            \A i \in 1..Len(bands) :
                Measured(bands'[i]) =
                    Measured(UpdateBand(bands[i], freqData', CurrentMaxFreq).band) ]_vars

\* C27: createBand validates start and end against the Nyquist limit of the
\* sample rate in force at the call, in every state: a frequency above that
\* limit is rejected also before start() has run and when the sample rate
\* has changed since the last update.
C27_ValidatedAgainstCurrentLimit ==
    [][ \A a \in BandArgs :
            (CreateBand(a) /\ (2 * a[1] > sampleRate \/ 2 * a[2] > sampleRate)) =>
                (last'.result # "ok" /\ bands' = bands) ]_vars

\* C28: update never returns successfully before the promise start()
\* returned has resolved: while the microphone is being requested or the
\* media is loading, an update raises the source-not-ready error.
C28_NoUpdateBeforeReady ==
    [][ (Update /\ promise \in {"pendingMic", "pendingMedia"}) =>
            last'.result = "SourceNotReady" ]_vars

\* C29: getLowLatencyMedia terminates whatever the requests settle to; the
\* latency requests ask for targetLatency, targetLatency + increment, ... in
\* strictly increasing order and never above maxLatency, no request follows a
\* success, and once every latency has failed there is exactly one
\* unconstrained request when fallback is true and an error without a
\* further request when fallback is false.
MediaDone == media.pc \in {"returned", "thrown"}

LatencyExhausted ==
    /\ \A k \in 1..Len(media.requests) :
           media.requests[k].kind = "latency" => media.requests[k].outcome = "latency"
    /\ media.latency > media.maxLatency

C29_RequestOrder ==
    LET rs == media.requests
        n  == Len(rs)
    IN  /\ \A k \in 1..n : rs[k].kind = "latency" =>
              /\ rs[k].exact = media.targetLatency + (k - 1) * media.increment
              /\ rs[k].exact <= media.maxLatency
              /\ k > 1 => rs[k].exact > rs[k - 1].exact
        /\ \A k \in 1..(n - 1) : rs[k].kind = "latency" /\ rs[k].outcome = "latency"
        /\ \A k \in 1..n : rs[k].kind = "plain" =>
              /\ k = n
              /\ media.fallback
              /\ media.targetLatency + (n - 1) * media.increment > media.maxLatency
        /\ media.pc = "returned" => n >= 1 /\ rs[n].outcome = "stream"
        /\ (MediaDone /\ LatencyExhausted) =>
              IF media.fallback
              THEN n >= 1 /\ rs[n].kind = "plain"
              ELSE /\ media.pc = "thrown"
                   /\ media.error = "lowLatencyFailed"
                   /\ \A k \in 1..n : rs[k].kind = "latency"

C29_TerminatesInOrder == []C29_RequestOrder /\ <>MediaDone

C29_Witness ==
    /\ media.pc = "returned"
    /\ media.fallback
    /\ Len(media.requests) = 5
    /\ media.requests[4].exact = 40
    /\ media.requests[5].kind = "plain"

\* the index range of the band lies inside the snapshot
InsideSnapshot(b, data, mf) ==
    LET rangeStart == IndexFor(b.startFreq, mf, Len(data))
        rangeEnd == IndexFor(b.endFreq, mf, Len(data))
    IN  /\ rangeStart[2] = 1 /\ rangeEnd[2] = 1
        /\ 0 <= rangeStart[1] /\ rangeStart[1] <= rangeEnd[1] /\ rangeEnd[1] <= Len(data) - 1

\* C30: for a band whose index range lies inside the snapshot, the routine
\* updateFromData leaves the band with the volume, isSpiking and
\* isOverThreshold that the inline loop of update computes from the same
\* band, previous volume and snapshot.
C30_HelperMatchesInlineLoop ==
    [][ last'.op = "updateFromData" =>
          \A i \in 1..Len(bands) :
             InsideSnapshot(bands[i], freqData', maxFreq) =>
                Measured(bands'[i]) = Measured(UpdateBand(bands[i], freqData', maxFreq).band) ]_vars

C30_Witness ==
    /\ last.op = "updateFromData"
    /\ InsideSnapshot(bands[1], freqData, maxFreq)
    /\ bands[1].spikeTolerance = Num(10)
    /\ bands[1].threshold = Num(100)
    /\ bands[1].volume = Num(280)
    /\ bands[1].isSpiking
    /\ bands[1].isOverThreshold

====
